---- MODULE Spec2Model ----
(***************************************************************************)
(* A model of sas-cli (src/sas_cli/_main.py, src/sas_cli/_file_helpers.py):*)
(* one command-line invocation, from parse_args through main to one of     *)
(* run_sas_program, get_sas_data, get_sas_lib, with the saspy session, the *)
(* config file, the program file, the local log file and the SCAPROC file  *)
(* as the environment.                                                     *)
(***************************************************************************)
EXTENDS Integers, Sequences, FiniteSets

(***************************************************************************)
(* Bounds of the model                                                     *)
(***************************************************************************)
\* longest file path (in characters) given to the file validators
MaxPathLen == 5
\* most lines the engine appends to the local log file during one submission
MaxLogLines == 2
\* most lines of the SCAPROC record file
MaxScaprocLines == 2
\* longest --obs argument (in characters) given to integer_in_range
MaxObsLen == 5

(***************************************************************************)
(* Strings as sequences of characters: file paths                          *)
(***************************************************************************)
PathChars == {"p", ".", "s", "a"}

DotSas == <<".", "s", "a", "s">>

\* str.endswith
EndsWith(s, suffix) ==
    /\ Len(s) >= Len(suffix)
    /\ SubSeq(s, Len(s) - Len(suffix) + 1, Len(s)) = suffix

SeqsUpTo(S, n) == UNION {[1..k -> S] : k \in 0..n}

\* what the file system holds at a path: nothing, a readable file, or
\* something that exists but open() refuses (a directory, no permission)
FileStates == {"missing", "readable", "unreadable"}

\* open(filepath) succeeds
CanOpen(st) == st = "readable"

\* os.path.exists(filepath)
PathExists(st) == st # "missing"

Returned(v) == [raises |-> "none", value |-> v]

Raised(e) == [raises |-> e, value |-> <<>>]

\* InvalidFileException derives from argparse.ArgumentTypeError
IsArgumentTypeError(e) == e \in {"ArgumentTypeError", "InvalidFileException"}

valid_sas_file_any_suffix(filepath, st) ==
    IF ~CanOpen(st) THEN Raised("ArgumentTypeError") ELSE Returned(filepath)

\* _main.valid_sas_file
valid_sas_file(filepath, st) ==
    IF ~CanOpen(st) THEN Raised("ArgumentTypeError")
    ELSE IF ~EndsWith(filepath, DotSas) THEN Raised("ArgumentTypeError")
    ELSE Returned(filepath)

\* _file_helpers.valid_sas_file
helpers_valid_sas_file(filepath, st) ==
    IF ~(PathExists(st) /\ EndsWith(filepath, DotSas))
    THEN Raised("InvalidFileException")
    ELSE Returned(filepath)

\* one print() call: the fixed text and the values formatted into it
Line(text, items) == [text |-> text, items |-> items]

(***************************************************************************)
(* The saspy session                                                       *)
(***************************************************************************)
\* what SASsession() does when constructed
SessionOutcomes ==
    {"ok", "SASIOConnectionError", "SASConfigNotValidError",
     "SASConfigNotFoundError", "SASIONotSupportedError", "AttributeError",
     "OtherException"}

ConfigErrorsMutant == {"SASConfigNotValidError", "SASConfigNotFoundError"}

\* the exception classes of the second except clause of get_sas_session
get_sas_session_config_errors ==
    {"SASConfigNotValidError", "SASConfigNotFoundError",
     "SASIONotSupportedError", "AttributeError"}

\* get_sas_session: the session, or the exception leaving the function, with
\* what it printed to stderr
get_sas_session(outcome) ==
    IF outcome = "ok"
    THEN [session |-> TRUE, raises |-> "none", reraised |-> FALSE,
          stderr |-> <<>>]
    ELSE IF outcome = "SASIOConnectionError"
    THEN [session |-> FALSE, raises |-> outcome, reraised |-> TRUE,
          stderr |-> <<>>]
    ELSE IF outcome \in get_sas_session_config_errors
    THEN [session |-> FALSE, raises |-> "SASConfigNotValidError",
          reraised |-> FALSE,
          stderr |-> <<Line("Saspy configuration error", <<outcome>>)>>]
    ELSE [session |-> FALSE, raises |-> outcome, reraised |-> TRUE,
          stderr |-> <<>>]

(***************************************************************************)
(* Values the session's accessors hand back, and what print() shows        *)
(***************************************************************************)
\* list_tables(libref, results="pandas"): None, an empty frame, or rows
ListTablesValues == {"None", "Empty DataFrame", "TABLE_A", "TABLE_A TABLE_B"}

IsNone(v) == v = "None"

\* a listing without a single table
IsEmptyValue(v) == v \in {"None", "Empty DataFrame"}

ColumnInfoOutcomes ==
    {Returned("columns: a"), Returned("columns: a b"), Raised("ValueError")}

ToDfOutcomes == {Returned("rows: 1"), Returned("rows: 1 2"), Raised("ValueError")}

ZeroCalls ==
    [submit |-> 0, symget |-> 0, list_tables |-> 0, sasdata |-> 0,
     columnInfo |-> 0, to_df |-> 0, SYSERR |-> 0, SYSERRORTEXT |-> 0]

Called(calls, names) ==
    [k \in DOMAIN calls |-> IF k \in names THEN calls[k] + 1 ELSE calls[k]]

\* what one handler did: how it left (a return value or an exception), what
\* it printed, whether it opened and closed a session, what it called
Outcome(raises, ret, stdout, stderr, opens, closes, calls) ==
    [raises |-> raises, ret |-> ret, stdout |-> stdout, stderr |-> stderr,
     opens |-> opens, closes |-> closes, calls |-> calls]

(***************************************************************************)
(* get_sas_lib and get_sas_data                                            *)
(***************************************************************************)
\* the except clause of get_sas_lib
get_sas_lib_except == {"SASIOConnectionError", "SASConfigNotValidError"}

\* the except clause of get_sas_data
get_sas_data_except == {"SASIOConnectionError", "SASConfigNotValidError"}

SessionErrorsMutant == {"SASIOConnectionError"}

\* the except clause of run_sas_program that returns 1 without a message
run_sas_program_except == {"SASIOConnectionError", "SASConfigNotValidError"}

\* how a handler leaves when get_sas_session raised
OpenFailed(s, caught) ==
    IF s.raises \in caught
    THEN Outcome("none", 1, <<>>, s.stderr, 0, 0, ZeroCalls)
    ELSE Outcome(s.raises, 0, <<>>, s.stderr, 0, 0, ZeroCalls)

ShowsListingMutant(v) == ~IsEmptyValue(v)

\* the test before print(list_of_tables)
ShowsListing(v) == ~IsNone(v)

get_sas_lib(ns, outcome, list_of_tables) ==
    LET s == get_sas_session(outcome) IN
    IF ~s.session THEN OpenFailed(s, get_sas_lib_except)
    ELSE Outcome("none", 0,
                 IF ShowsListing(list_of_tables)
                 THEN <<Line(list_of_tables, <<>>)>> ELSE <<>>,
                 <<>>, 1, 1, Called(ZeroCalls, {"list_tables"}))

FetchesRowsMutant(info_only) == TRUE

\* the else branch of `if args.info_only`
FetchesRows(info_only) == ~info_only

InnerExceptMutant == {}

\* the except clause around columnInfo and to_df
get_sas_data_inner_except == {"ValueError"}

\* how the inner try block ends when an accessor raised e: print(e) to stderr
\* and return 1, or e goes on through the with statement
AccessorRaised(e, calls) ==
    IF e \in get_sas_data_inner_except
    THEN Outcome("none", 1, <<>>, <<Line(e, <<>>)>>, 1, 1, calls)
    ELSE Outcome(e, 0, <<>>, <<>>, 1, 1, calls)

get_sas_data(ns, outcome, column_info, df) ==
    LET s == get_sas_session(outcome) IN
    IF ~s.session THEN OpenFailed(s, get_sas_data_except)
    ELSE IF column_info.raises # "none"
    THEN AccessorRaised(column_info.raises,
                        Called(ZeroCalls, {"sasdata", "columnInfo"}))
    ELSE IF ~FetchesRows(ns.info_only)
    THEN Outcome("none", 0, <<Line(column_info.value, <<>>)>>, <<>>, 1, 1,
                 Called(ZeroCalls, {"sasdata", "columnInfo"}))
    ELSE IF df.raises # "none"
    THEN AccessorRaised(df.raises,
                        Called(ZeroCalls, {"sasdata", "columnInfo", "to_df"}))
    ELSE Outcome("none", 0, <<Line(df.value, <<>>)>>, <<>>, 1, 1,
                 Called(ZeroCalls, {"sasdata", "columnInfo", "to_df"}))

(***************************************************************************)
(* The config file and parse_args                                          *)
(***************************************************************************)
CONFIG_FILE == "config.ini"

EmptyDict == [k \in {} |-> ""]

DictUpdate(d, u) ==
    [k \in (DOMAIN d) \cup (DOMAIN u) |-> IF k \in DOMAIN u THEN u[k] ELSE d[k]]

\* the INI file named by --config: absent, or a set of sections
NoConfigFile == [exists |-> FALSE, sections |-> EmptyDict]

ConfigWith(sections) == [exists |-> TRUE, sections |-> sections]

LoggingSections ==
    {[sas_server_logging_dir |-> "sasdir", local_logging_dir |-> "localdir"],
     [k \in {"local_logging_dir"} |-> "localdir"],
     EmptyDict}

ConfigFiles ==
    {NoConfigFile, ConfigWith(EmptyDict)}
        \cup {ConfigWith([k \in {"LOGGING"} |-> sec]) : sec \in LoggingSections}

\* ConfigParser.read skips a missing file; ConfigParser.items(section)
config_items(cfg, section) ==
    IF cfg.exists /\ section \in DOMAIN cfg.sections
    THEN Returned(cfg.sections[section])
    ELSE Raised("NoSectionError")

logging_defaults == [sas_server_logging_dir |-> "", local_logging_dir |-> ""]

\* exit status of ArgumentParser.error
ArgparseErrorStatus == 2

\* parse_args: the namespace, or the exception that leaves it
parse_args(a, cfg, st) ==
    LET items == IF a.config # "" THEN config_items(cfg, "LOGGING")
                 ELSE Returned(EmptyDict)
        typed == IF a.command = "run" THEN valid_sas_file(a.program_path, st)
                 ELSE Returned(a.program_path)
    IN  IF items.raises # "none"
        THEN [raises |-> items.raises, code |-> 0, value |-> logging_defaults]
        ELSE IF IsArgumentTypeError(typed.raises)
        THEN [raises |-> "SystemExit", code |-> ArgparseErrorStatus,
              value |-> logging_defaults]
        ELSE [raises |-> "none", code |-> 0,
              value |-> DictUpdate(logging_defaults, items.value)]

(***************************************************************************)
(* The local log file and the SCAPROC record file                          *)
(***************************************************************************)
LogLines == {"NOTE: step ran", "ERROR: no such table"}

\* line.startswith("ERROR")
StartsWithError(line) == line = "ERROR: no such table"

\* the lines of the SCAPROC record, as their blank-separated words
ScaprocLines ==
    {<<"/*", "JOBSPLIT:", "DATASET", "OUTPUT", "SEQ", "WORK._TMP.DATA", "*/">>,
     <<"/*", "JOBSPLIT:", "FILE", "OUTPUT", "out.txt", "*/">>,
     <<"/*", "JOBSPLIT:", "DATASET", "INPUT", "MULTI", "C_TST.T.INDEX", "*/">>,
     <<"/*", "JOBSPLIT:", "CATALOG", "OUTPUT", "WORK.FORMATS.CATALOG", "*/">>,
     <<"/*", "JOBSPLIT:", "PROCNAME", "DATASTEP", "*/">>}

\* `word in line` for one blank-separated word of the line
WordContains(w, sub) ==
    \/ w = sub
    \/ <<w, sub>> \in {<<"JOBSPLIT:", "JOBSPLIT">>}

Contains(line, sub) == \E i \in 1..Len(line) : WordContains(line[i], sub)

\* re.sub(r"\/\* JOBSPLIT: ", "", line).replace(" */", "").split()
Segments(line) ==
    LET a == IF Len(line) >= 2 /\ line[1] = "/*" /\ line[2] = "JOBSPLIT:"
             THEN SubSeq(line, 3, Len(line)) ELSE line
    IN  IF Len(a) >= 2 /\ a[Len(a)] = "*/" THEN SubSeq(a, 1, Len(a) - 1) ELSE a

\* keys = ["DATASET", "FILE"]
OutputKeys == {"DATASET", "FILE"}

RECURSIVE CollectOutputs(_, _)
\* the loop of print_output_info over the JOBSPLIT OUTPUT lines: the dict of
\* sets, or the exception that ends it
CollectOutputs(lines, ret) ==
    IF lines = <<>> THEN [raises |-> "none", ret |-> ret]
    ELSE LET line == Head(lines) IN
         IF ~(Contains(line, "JOBSPLIT") /\ Contains(line, "OUTPUT"))
         THEN CollectOutputs(Tail(lines), ret)
         ELSE LET segments == Segments(line) IN
              IF Len(segments) < 2 THEN [raises |-> "IndexError", ret |-> ret]
              ELSE LET key == segments[1]
                       value == segments[Len(segments)]
                   IN  IF key \notin DOMAIN ret
                       THEN [raises |-> "KeyError", ret |-> ret]
                       ELSE CollectOutputs(Tail(lines),
                                [ret EXCEPT ![key] = @ \cup {value}])

NoFile == [exists |-> FALSE, lines |-> <<>>]

FileWith(lines) == [exists |-> TRUE, lines |-> lines]

\* print_output_info, on the SCAPROC file as it is once the wait is over
print_output_info(scaproc_file) ==
    IF scaproc_file.exists
    THEN LET c == CollectOutputs(scaproc_file.lines, [k \in OutputKeys |-> {}])
         IN  IF c.raises # "none"
             THEN [raises |-> c.raises, stdout |-> <<>>, stderr |-> <<>>]
             ELSE [raises |-> "none", stdout |-> <<Line("Output", <<>>)>>,
                   stderr |-> <<>>]
    ELSE [raises |-> "none", stdout |-> <<>>,
          stderr |-> <<Line("Unable to get output information", <<>>)>>]

RECURSIVE ErrorRows(_)
\* the rows of the error table: the lines of the log that start with ERROR
ErrorRows(lines) ==
    IF lines = <<>> THEN <<>>
    ELSE (IF StartsWithError(Head(lines)) THEN <<Head(lines)>> ELSE <<>>)
            \o ErrorRows(Tail(lines))

(***************************************************************************)
(* The engine's error report                                               *)
(***************************************************************************)
SysErrCodes == {0, 1012}

SysErrTexts == {"", "File WORK.DOESNOTEXIST.DATA does not exist."}

\* str(sys_err) in the f-string of the RuntimeError message
FormatCode(n) == IF n = 0 THEN "0" ELSE "1012"

\* `if sys_err_text or sys_err`
EngineReportsError(sys_err, sys_err_text) == sys_err_text # "" \/ sys_err # 0

(***************************************************************************)
(* State                                                                   *)
(***************************************************************************)
VARIABLES
    pc,      \* where the invocation is
    argv,    \* the command line
    env,     \* the config file and what the file system holds at the path
    args,    \* the namespace parse_args returned
    sas,     \* the session: its state, what was called on it, what it gave
    out,     \* stdout and stderr
    result,  \* how the process ended
    run,     \* the locals of run_sas_program
    files,   \* the local log file and the SCAPROC record file
    check    \* the file validator applied on its own, and what it gave

vars == <<pc, argv, env, args, sas, out, result, run, files, check>>

\* the paths the command line names
ProgramPaths ==
    {<<"p", ".", "s", "a", "s">>, <<"p", ".", "s", "a">>, <<"s", "a", "s">>}

NoSession ==
    [state |-> "none", opens |-> 0, closes |-> 0, calls |-> ZeroCalls,
     outcome |-> "none", raised |-> "none", reraised |-> FALSE,
     listing |-> "unset",
     column_info |-> Returned("unset"), df |-> Returned("unset"),
     dir_exists |-> 0, syserr |-> 0, syserrtext |-> "", submitted |-> FALSE]

NoRun ==
    [sas_write_to_files |-> FALSE, program_code |-> <<>>, future |-> "none",
     pos |-> 0, appended |-> 0, live |-> FALSE, raising |-> "none",
     worker_exc |-> "none"]

NoResult == [kind |-> "running", ret |-> 0, exc |-> "none"]

NoCheck == [fn |-> "none", res |-> Returned(<<>>)]

Commands == {"none", "run", "data", "lib"}

\* the command line: the options of another subcommand keep their defaults
Argvs ==
    {a \in [command : Commands, config : {CONFIG_FILE, ""},
            program_path : ProgramPaths, show_log : BOOLEAN,
            info_only : BOOLEAN] :
        /\ a.command # "run" =>
              a.program_path = <<"p", ".", "s", "a", "s">> /\ ~a.show_log
        /\ a.command # "data" => ~a.info_only}

Envs ==
    {e \in [config : ConfigFiles, fileState : FileStates,
            log : {NoFile, FileWith(<<"NOTE: step ran">>)}] :
        TRUE}

Init ==
    /\ pc = "start"
    /\ argv \in Argvs
    /\ \E e \in Envs :
          /\ argv.command # "run" => e.fileState = "readable" /\ e.log = NoFile
          /\ env = [config |-> e.config, fileState |-> e.fileState]
          /\ files = [log |-> e.log, scaproc |-> NoFile]
    /\ args = logging_defaults
    /\ sas = NoSession
    /\ out = [stdout |-> <<>>, stderr |-> <<>>]
    /\ result = NoResult
    /\ run = NoRun
    /\ check = NoCheck

\* exit status of the process: SystemExit(main()), SystemExit from argparse,
\* or the interpreter's status for an uncaught exception
ExitStatus(r) == IF r.kind = "uncaught" THEN 1 ELSE r.ret

AddCalls(c, d) == [k \in DOMAIN c |-> c[k] + d[k]]

\* a handler that ran in one piece leaves the process
Leave(o) ==
    /\ out' = [stdout |-> out.stdout \o o.stdout, stderr |-> out.stderr \o o.stderr]
    /\ result' = IF o.raises = "none"
                 THEN [kind |-> "returned", ret |-> o.ret, exc |-> "none"]
                 ELSE [kind |-> "uncaught", ret |-> 0, exc |-> o.raises]
    /\ pc' = "done"

(***************************************************************************)
(* main: parse_args, then the subcommand                                   *)
(***************************************************************************)
ParseArgs ==
    /\ pc = "start"
    /\ LET p == parse_args(argv, env.config, env.fileState) IN
          IF p.raises = "none"
          THEN /\ args' = p.value
               /\ pc' = "main"
               /\ UNCHANGED result
          ELSE /\ result' = IF p.raises = "SystemExit"
                            THEN [kind |-> "SystemExit", ret |-> p.code,
                                  exc |-> "none"]
                            ELSE [kind |-> "uncaught", ret |-> 0,
                                  exc |-> p.raises]
               /\ pc' = "done"
               /\ UNCHANGED args
    /\ UNCHANGED <<argv, env, sas, out, run, files, check>>

MainNoCommand ==
    /\ pc = "main"
    /\ argv.command = "none"
    /\ Leave(Outcome("none", 0, <<>>, <<>>, 0, 0, ZeroCalls))
    /\ UNCHANGED <<argv, env, args, sas, run, files, check>>

\* the session record once get_sas_session has run on a construction outcome
Constructed(outcome) ==
    LET s == get_sas_session(outcome) IN
    [sas EXCEPT !.outcome = outcome, !.raised = s.raises,
                !.reraised = s.reraised]

SessionAfter(o, outcome) ==
    [Constructed(outcome) EXCEPT !.state = IF o.opens = 0 THEN @
                          ELSE IF o.closes >= o.opens THEN "closed" ELSE "open",
                !.opens = @ + o.opens,
                !.closes = @ + o.closes,
                !.calls = AddCalls(@, o.calls)]

MainLib ==
    /\ pc = "main"
    /\ argv.command = "lib"
    /\ \E outcome \in SessionOutcomes, v \in ListTablesValues :
          LET o == get_sas_lib(argv, outcome, v) IN
          /\ Leave(o)
          /\ sas' = [SessionAfter(o, outcome) EXCEPT
                        !.listing = IF o.calls.list_tables > 0 THEN v ELSE @]
    /\ UNCHANGED <<argv, env, args, run, files, check>>

MainData ==
    /\ pc = "main"
    /\ argv.command = "data"
    /\ \E outcome \in SessionOutcomes, ci \in ColumnInfoOutcomes,
          df \in ToDfOutcomes :
          LET o == get_sas_data(argv, outcome, ci, df) IN
          /\ Leave(o)
          /\ sas' = [SessionAfter(o, outcome) EXCEPT
                        !.column_info = IF o.calls.columnInfo > 0 THEN ci ELSE @,
                        !.df = IF o.calls.to_df > 0 THEN df ELSE @]
    /\ UNCHANGED <<argv, env, args, run, files, check>>

(***************************************************************************)
(* run_sas_program, step by step                                           *)
(***************************************************************************)
ToStdout(lines) == [out EXCEPT !.stdout = @ \o lines]

Return(n) == [kind |-> "returned", ret |-> n, exc |-> "none"]

Uncaught(e) == [kind |-> "uncaught", ret |-> 0, exc |-> e]

CloseSessionMutant(s) == s

\* the with statement leaves the session closed
CloseSession(s) == [s EXCEPT !.state = "closed", !.closes = @ + 1]

\* main calls run_sas_program: the program file, which parse_args found
\* readable, is read and the session opened
RunOpen ==
    /\ pc = "main"
    /\ argv.command = "run"
    /\ \E outcome \in SessionOutcomes :
          LET s == get_sas_session(outcome) IN
          IF ~s.session
          THEN LET o == OpenFailed(s, run_sas_program_except) IN
               /\ Leave(o)
               /\ sas' = SessionAfter(o, outcome)
               /\ UNCHANGED run
          ELSE /\ sas' = [Constructed(outcome) EXCEPT
                             !.state = "open", !.opens = @ + 1]
               /\ run' = [run EXCEPT !.program_code = <<"PROGRAM">>]
               /\ pc' = "run_setup"
               /\ UNCHANGED <<out, result>>
    /\ UNCHANGED <<argv, env, args, files, check>>

LoggingPrefix == <<"PROC SCAPROC", "PROC PRINTTO">>

\* both logging directories are configured
LoggingConfigured(ns) ==
    ns.sas_server_logging_dir # "" /\ ns.local_logging_dir # ""

\* log_file_local.touch()
Touch(f) == [f EXCEPT !.log.exists = TRUE]

UnlinkMutant(f) == f

\* log_file_local.unlink(missing_ok=True)
Unlink(f) == [f EXCEPT !.log = NoFile]

\* the attempt to set up live logging and SCAPROC
RunSetup ==
    /\ pc = "run_setup"
    /\ IF LoggingConfigured(args)
       THEN \E d \in {0, 1} :
            /\ sas' = [sas EXCEPT !.calls = Called(@, {"submit", "symget"}),
                                  !.dir_exists = d]
            /\ IF d = 1
               THEN /\ run' = [run EXCEPT !.program_code = LoggingPrefix \o @,
                                          !.sas_write_to_files = TRUE]
                    /\ files' = Touch(files)
                    /\ UNCHANGED out
               ELSE /\ out' = ToStdout(<<Line("SAS unable to log", <<>>)>>)
                    /\ files' = Unlink(Touch(files))
                    /\ UNCHANGED run
       ELSE UNCHANGED <<sas, run, files, out>>
    /\ pc' = IF argv.show_log /\ run'.sas_write_to_files
             THEN "live_open" ELSE "run_submit"
    /\ UNCHANGED <<argv, env, args, result, check>>

\* what the submission leaves behind in the engine and in the local log
EngineRan(s, code, text) ==
    [s EXCEPT !.syserr = code, !.syserrtext = text, !.submitted = TRUE]

RuntimeErrorLine(code, text) ==
    Line("An error occured while running", <<FormatCode(code), text>>)

\* the else branch: the program is submitted on the foreground thread
RunSubmit ==
    /\ pc = "run_submit"
    /\ \E code \in SysErrCodes, text \in SysErrTexts,
          new \in SeqsUpTo(LogLines, MaxLogLines) :
          LET shown == IF argv.show_log THEN <<Line("LOG", <<>>)>> ELSE <<>>
              ran == [EngineRan(sas, code, text) EXCEPT
                         !.calls = Called(@, {"submit", "SYSERRORTEXT", "SYSERR"})]
          IN
          /\ files' = IF run.sas_write_to_files
                      THEN [files EXCEPT !.log.lines = @ \o new]
                      ELSE files
          /\ sas' = CloseSession(ran)
          /\ IF EngineReportsError(code, text)
             THEN /\ out' = [stdout |-> out.stdout \o shown,
                             stderr |-> out.stderr \o <<RuntimeErrorLine(code, text)>>]
                  /\ result' = Return(1)
                  /\ pc' = "done"
             ELSE /\ out' = ToStdout(shown)
                  /\ pc' = "run_post"
                  /\ UNCHANGED result
    /\ UNCHANGED <<argv, env, args, run, check>>

\* the live log: the log file is opened and read from its end, the submission
\* is handed to the executor
LiveOpen ==
    /\ pc = "live_open"
    /\ run' = [run EXCEPT !.pos = Len(files.log.lines), !.future = "pending",
                          !.live = TRUE]
    /\ pc' = "poll_check"
    /\ UNCHANGED <<argv, env, args, sas, out, result, files, check>>

\* the worker thread takes the work item: the future is running
WorkerStart ==
    /\ run.future = "pending"
    /\ run' = [run EXCEPT !.future = "running"]
    /\ sas' = [sas EXCEPT !.calls = Called(@, {"submit"})]
    /\ UNCHANGED <<pc, argv, env, args, out, result, files, check>>

\* the engine appends a line to the log while the submission runs
EngineAppend ==
    /\ run.future = "running"
    /\ run.appended < MaxLogLines
    /\ \E line \in LogLines :
          files' = [files EXCEPT !.log.lines = Append(@, line)]
    /\ run' = [run EXCEPT !.appended = @ + 1]
    /\ UNCHANGED <<pc, argv, env, args, sas, out, result, check>>

\* sas.submit returns on the worker thread
WorkerFinish ==
    /\ run.future = "running"
    /\ \E code \in SysErrCodes, text \in SysErrTexts :
          sas' = EngineRan(sas, code, text)
    /\ run' = [run EXCEPT !.future = "finished"]
    /\ UNCHANGED <<pc, argv, env, args, out, result, files, check>>

TailContinuesMutant(future) == TRUE

\* code_runner.running(): the worker has taken the work item and not finished
TailContinues(future) == future = "running"

\* read_new_lines: `while code_runner.running()`
PollCheck ==
    /\ pc = "poll_check"
    /\ pc' = IF TailContinues(run.future) THEN "poll_read" ELSE "live_result"
    /\ UNCHANGED <<argv, env, args, sas, out, result, run, files, check>>

\* read_new_lines: file.readline(), and the print of the line it yields
PollRead ==
    /\ pc = "poll_read"
    /\ IF run.pos < Len(files.log.lines)
       THEN /\ out' = ToStdout(<<Line(files.log.lines[run.pos + 1], <<>>)>>)
            /\ run' = [run EXCEPT !.pos = @ + 1]
       ELSE UNCHANGED <<out, run>>
    /\ pc' = "poll_check"
    /\ UNCHANGED <<argv, env, args, sas, result, files, check>>

\* code_runner.result() once the worker is done; both with blocks are left
LiveResult ==
    /\ pc = "live_result"
    /\ run.future = "finished"
    /\ sas' = CloseSession(sas)
    /\ pc' = "run_post"
    /\ UNCHANGED <<argv, env, args, out, result, run, files, check>>

\* exceptions that sas.submit, readline or print may raise during the tail
TailExceptions == {"RuntimeError", "OtherException"}

\* sas.submit raises on the worker thread: the future holds the exception
WorkerRaise ==
    /\ run.future = "running"
    /\ \E e \in TailExceptions :
          run' = [run EXCEPT !.future = "failed", !.worker_exc = e]
    /\ UNCHANGED <<pc, argv, env, args, sas, out, result, files, check>>

\* readline or print raises on the foreground thread while the tail runs
PollRaise ==
    /\ pc = "poll_read"
    /\ \E e \in TailExceptions : run' = [run EXCEPT !.raising = e]
    /\ pc' = "live_unwind"
    /\ UNCHANGED <<argv, env, args, sas, out, result, files, check>>

\* the worker has left sas.submit, by return or by exception: what
\* ThreadPoolExecutor.__exit__ and code_runner.result() wait for
WorkerDone(future) == future \in {"finished", "failed"}

\* an exception leaves the with statements of run_sas_program: the session is
\* closed, then the except clauses decide
ExceptionLeaves(e) ==
    /\ sas' = CloseSession(sas)
    /\ IF e = "RuntimeError"
       THEN /\ out' = [out EXCEPT !.stderr =
                          @ \o <<Line("An error occured while running", <<e>>)>>]
            /\ result' = Return(1)
       ELSE IF e \in run_sas_program_except
       THEN /\ result' = Return(1)
            /\ UNCHANGED out
       ELSE /\ result' = Uncaught(e)
            /\ UNCHANGED out
    /\ pc' = "done"

\* the foreground exception unwinds: the executor waits for the worker, the
\* session is closed
LiveUnwind ==
    /\ pc = "live_unwind"
    /\ WorkerDone(run.future)
    /\ ExceptionLeaves(run.raising)
    /\ UNCHANGED <<argv, env, args, run, files, check>>

\* code_runner.result() raises what sas.submit raised on the worker
LiveResultRaises ==
    /\ pc = "live_result"
    /\ run.future = "failed"
    /\ ExceptionLeaves(run.worker_exc)
    /\ UNCHANGED <<argv, env, args, run, files, check>>

ScaprocFiles ==
    {NoFile} \cup {FileWith(l) : l \in SeqsUpTo(ScaprocLines, MaxScaprocLines)}

\* after the session: the error table of the local log, the output info
RunPost ==
    /\ pc = "run_post"
    /\ IF ~run.sas_write_to_files
       THEN /\ result' = Return(0)
            /\ UNCHANGED <<out, files>>
       ELSE \E sc \in ScaprocFiles :
            LET table == <<Line("Error table", ErrorRows(files.log.lines))>>
                p == print_output_info(sc)
            IN  /\ files' = [files EXCEPT !.scaproc = sc]
                /\ out' = [stdout |-> out.stdout \o table \o p.stdout,
                           stderr |-> out.stderr \o p.stderr]
                /\ result' = IF p.raises = "none" THEN Return(0)
                             ELSE Uncaught(p.raises)
    /\ pc' = "done"
    /\ UNCHANGED <<argv, env, args, sas, run, check>>

Next ==
    \/ ParseArgs
    \/ MainNoCommand
    \/ MainLib
    \/ MainData
    \/ RunOpen
    \/ RunSetup
    \/ RunSubmit
    \/ LiveOpen
    \/ WorkerStart
    \/ EngineAppend
    \/ WorkerFinish
    \/ PollCheck
    \/ PollRead
    \/ LiveResult
    \/ WorkerRaise
    \/ PollRaise
    \/ LiveUnwind
    \/ LiveResultRaises
    \/ RunPost

Spec == Init /\ [][Next]_vars

\* the foreground thread keeps running: each of its steps is taken once it
\* stays possible (the worker and the engine are not obliged to anything)
FairSpec ==
    /\ Spec
    /\ WF_vars(PollCheck)
    /\ WF_vars(PollRead)
    /\ WF_vars(LiveResult)
    /\ WF_vars(LiveResultRaises)
    /\ WF_vars(LiveUnwind)
    /\ WF_vars(RunPost)

(***************************************************************************)
(* The file validators on their own, over every short path                 *)
(***************************************************************************)
InitValid ==
    /\ pc = "validate"
    /\ argv \in [command : {"run"}, config : {CONFIG_FILE},
                 program_path : SeqsUpTo(PathChars, MaxPathLen),
                 show_log : {FALSE}, info_only : {FALSE}]
    /\ env \in [config : {NoConfigFile}, fileState : FileStates]
    /\ files = [log |-> NoFile, scaproc |-> NoFile]
    /\ args = logging_defaults
    /\ sas = NoSession
    /\ out = [stdout |-> <<>>, stderr |-> <<>>]
    /\ result = NoResult
    /\ run = NoRun
    /\ check = NoCheck

ValidateMain ==
    /\ pc = "validate"
    /\ check' = [fn |-> "_main",
                 res |-> valid_sas_file(argv.program_path, env.fileState)]
    /\ pc' = "validated"
    /\ UNCHANGED <<argv, env, args, sas, out, result, run, files>>

ValidateHelpers ==
    /\ pc = "validate"
    /\ check' = [fn |-> "_file_helpers",
                 res |-> helpers_valid_sas_file(argv.program_path, env.fileState)]
    /\ pc' = "validated"
    /\ UNCHANGED <<argv, env, args, sas, out, result, run, files>>

NextValid == ValidateMain \/ ValidateHelpers

SpecValid == InitValid /\ [][NextValid]_vars

(***************************************************************************)
(* integer_in_range on its own, over every short --obs string              *)
(***************************************************************************)
MAX_OUTPUT_OBS == 10000

ObsChars == {"0", "1", "9", "-"}

Digits == {"0", "1", "9"}

DigitValue(c) == IF c = "0" THEN 0 ELSE IF c = "1" THEN 1 ELSE 9

RECURSIVE DigitsValue(_)
\* the number a string of decimal digits denotes
DigitsValue(ds) ==
    IF ds = <<>> THEN 0
    ELSE 10 * DigitsValue(SubSeq(ds, 1, Len(ds) - 1)) + DigitValue(ds[Len(ds)])

AllDigits(ds) == ds # <<>> /\ \A i \in 1..Len(ds) : ds[i] \in Digits

\* int(obs): the integer, or ValueError for a string that is not a number
ParseInt(obs) ==
    IF AllDigits(obs) THEN Returned(DigitsValue(obs))
    ELSE IF obs # <<>> /\ obs[1] = "-" /\ AllDigits(Tail(obs))
    THEN Returned(0 - DigitsValue(Tail(obs)))
    ELSE Raised("ValueError")

OutOfRangeMutant(n) == n < 1 \/ n >= MAX_OUTPUT_OBS

\* `int(obs) < 1 or int(obs) > MAX_OUTPUT_OBS`
OutOfRange(n) == n < 1 \/ n > MAX_OUTPUT_OBS

integer_in_range(obs) ==
    LET n == ParseInt(obs) IN
    IF n.raises # "none" THEN n
    ELSE IF OutOfRange(n.value) THEN Raised("ArgumentTypeError")
    ELSE Returned(n.value)

InitObs ==
    /\ pc = "obs"
    /\ argv \in [command : {"data"}, config : {CONFIG_FILE},
                 program_path : {<<>>}, show_log : {FALSE}, info_only : {FALSE},
                 obs : SeqsUpTo(ObsChars, MaxObsLen)]
    /\ env = [config |-> NoConfigFile, fileState |-> "missing"]
    /\ files = [log |-> NoFile, scaproc |-> NoFile]
    /\ args = logging_defaults
    /\ sas = NoSession
    /\ out = [stdout |-> <<>>, stderr |-> <<>>]
    /\ result = NoResult
    /\ run = NoRun
    /\ check = NoCheck

ApplyIntegerInRange ==
    /\ pc = "obs"
    /\ check' = [fn |-> "integer_in_range", res |-> integer_in_range(argv.obs)]
    /\ pc' = "obs_done"
    /\ UNCHANGED <<argv, env, args, sas, out, result, run, files>>

NextObs == ApplyIntegerInRange

SpecObs == InitObs /\ [][NextObs]_vars

(***************************************************************************)
(* Properties                                                              *)
(***************************************************************************)
Done == pc = "done"

Ran(command) == Done /\ argv.command = command

InStderr(line) == \E i \in DOMAIN out.stderr : out.stderr[i] = line

\* C1: on every path of run_sas_program, once the program is submitted and
\* the engine reports a non-zero SYSERR or a non-empty SYSERRORTEXT, the
\* function returns 1 and stderr holds a message with that code and text.
C1_EngineErrorReturnsOne ==
    (Ran("run") /\ sas.submitted /\ (sas.syserr # 0 \/ sas.syserrtext # ""))
        => /\ result = Return(1)
           /\ InStderr(RuntimeErrorLine(sas.syserr, sas.syserrtext))

\* C2: on every path of run_sas_program, once the session opened and the
\* engine reports SYSERR 0 and an empty SYSERRORTEXT after the submission,
\* the function returns 0: no later step raises or returns non-zero.
C2_SuccessReturnsZero ==
    (Ran("run") /\ sas.opens > 0 /\ sas.submitted
        /\ sas.syserr = 0 /\ sas.syserrtext = "")
        => result = Return(0)

\* the path given to `run` fails validation
InvalidFile ==
    argv.command = "run"
        /\ ~(env.fileState = "readable" /\ EndsWith(argv.program_path, DotSas))

\* the LOGGING section of the config file can be read, or no file is named
ConfigReadable ==
    argv.config = "" \/ (env.config.exists /\ "LOGGING" \in DOMAIN env.config.sections)

\* C3 as stated: `run` with a path that fails validation ends the process with
\* exit status 1.
C3_InvalidFileExitsOne == (Done /\ InvalidFile) => ExitStatus(result) = 1

\* C3: `run` with a path that fails validation ends the process with a
\* non-zero exit status and without a session; the status is 2, from the
\* argument parser's error exit, whenever the LOGGING section was readable.
C3_InvalidFileExitsNonZero ==
    (Done /\ InvalidFile)
        => /\ ExitStatus(result) # 0
           /\ sas.opens = 0 /\ sas.outcome = "none"
           /\ ConfigReadable =>
                 result.kind = "SystemExit" /\ ExitStatus(result) = 2

C3_Witness ==
    Done /\ InvalidFile /\ env.fileState = "readable"
        /\ result.kind = "SystemExit" /\ ExitStatus(result) = 2

\* C4: run_sas_program, get_sas_lib and get_sas_data each return 1 when
\* opening the session raises SASIOConnectionError or SASConfigNotValidError,
\* and then nothing was called on a session.
C4_OpenErrorReturnsOne ==
    (Done /\ sas.raised \in {"SASIOConnectionError", "SASConfigNotValidError"})
        => /\ result = Return(1)
           /\ sas.calls = ZeroCalls
           /\ sas.opens = 0

C4_Witness ==
    /\ Ran("run")
    /\ sas.outcome = "SASConfigNotFoundError"
    /\ sas.raised = "SASConfigNotValidError"
    /\ result = Return(1)

\* C5: each valid_sas_file raises the typed argument error for every path
\* that cannot be opened and every path that does not end in ".sas", and
\* returns the path unchanged when it can be opened and ends in ".sas".
C5_ValidSasFile ==
    pc = "validated" =>
        IF CanOpen(env.fileState) /\ EndsWith(argv.program_path, DotSas)
        THEN check.res = Returned(argv.program_path)
        ELSE IsArgumentTypeError(check.res.raises)

ConfigDiagnostic(outcome) == Line("Saspy configuration error", <<outcome>>)

\* C6: get_sas_session prints a diagnostic to stderr and raises a new
\* SASConfigNotValidError when the construction raises one of the four
\* configuration errors; lets SASIOConnectionError through unchanged and
\* prints nothing; returns the session when the construction succeeds.
C6_GetSasSession ==
    /\ sas.outcome \in {"SASConfigNotValidError", "SASConfigNotFoundError",
                        "SASIONotSupportedError", "AttributeError"}
          => /\ sas.raised = "SASConfigNotValidError" /\ ~sas.reraised
             /\ out.stderr = <<ConfigDiagnostic(sas.outcome)>>
             /\ sas.opens = 0
    /\ sas.outcome = "SASIOConnectionError"
          => /\ sas.raised = "SASIOConnectionError" /\ sas.reraised
             /\ out.stderr = <<>> /\ out.stdout = <<>>
             /\ sas.opens = 0
    /\ sas.outcome = "ok" => sas.raised = "none" /\ sas.opens = 1

C6_Witness ==
    /\ sas.outcome = "AttributeError"
    /\ sas.raised = "SASConfigNotValidError"
    /\ out.stderr = <<ConfigDiagnostic("AttributeError")>>

\* C7 as stated: whenever get_sas_data opened a session, sasdata and
\* columnInfo were called once, to_df once unless info_only, the column info
\* (info_only) or the data frame was printed, and 0 is returned.
C7_DataAlwaysReturnsZero ==
    (Ran("data") /\ sas.opens > 0)
        => /\ sas.calls.sasdata = 1 /\ sas.calls.columnInfo = 1
           /\ sas.calls.to_df = (IF argv.info_only THEN 0 ELSE 1)
           /\ out.stdout = <<Line(IF argv.info_only THEN sas.column_info.value
                                  ELSE sas.df.value, <<>>)>>
           /\ result = Return(0)

\* C7: whenever get_sas_data opened a session, sasdata and columnInfo were
\* called once; to_df was called once when info_only is false and columnInfo
\* returned, and never otherwise; when no accessor raised, the column info
\* (info_only) or the data frame is what was printed, and 0 is returned.
C7_DataAccessors ==
    (Ran("data") /\ sas.opens > 0)
        => /\ sas.calls.sasdata = 1 /\ sas.calls.columnInfo = 1
           /\ sas.calls.to_df =
                 (IF ~argv.info_only /\ sas.column_info.raises = "none"
                  THEN 1 ELSE 0)
           /\ (sas.column_info.raises = "none" /\ sas.df.raises = "none")
                 => /\ out.stdout =
                          <<Line(IF argv.info_only THEN sas.column_info.value
                                 ELSE sas.df.value, <<>>)>>
                    /\ result = Return(0)

C7_Witness ==
    /\ Ran("data") /\ sas.opens > 0 /\ ~argv.info_only
    /\ sas.calls.to_df = 1
    /\ out.stdout = <<Line("rows: 1 2", <<>>)>>
    /\ result = Return(0)

\* C8: when columnInfo raises ValueError, get_sas_data returns 1, the error
\* is on stderr, to_df was never called, stdout is empty and the session is
\* closed.
C8_ColumnInfoValueError ==
    (Ran("data") /\ sas.column_info.raises = "ValueError")
        => /\ result = Return(1)
           /\ out.stderr = <<Line("ValueError", <<>>)>>
           /\ sas.calls.to_df = 0
           /\ out.stdout = <<>>
           /\ sas.state = "closed" /\ sas.opens = 1 /\ sas.closes = 1

C8_Witness ==
    /\ Ran("data") /\ sas.column_info.raises = "ValueError"
    /\ ~argv.info_only
    /\ sas.calls.columnInfo = 1
    /\ result = Return(1)

\* C9 as stated: get_sas_lib prints the value of list_tables when it is
\* non-empty and nothing otherwise, and returns 0.
C9_EmptyListingNotShown ==
    (Ran("lib") /\ sas.opens > 0)
        => /\ out.stdout = (IF ~IsEmptyValue(sas.listing)
                            THEN <<Line(sas.listing, <<>>)>> ELSE <<>>)
           /\ result = Return(0)

\* C9: get_sas_lib prints the value of list_tables whenever it is not None,
\* an empty listing included, prints nothing when it is None, and returns 0.
C9_ListingShownUnlessNone ==
    (Ran("lib") /\ sas.opens > 0)
        => /\ sas.calls.list_tables = 1
           /\ out.stdout = (IF sas.listing # "None"
                            THEN <<Line(sas.listing, <<>>)>> ELSE <<>>)
           /\ result = Return(0)

C9_Witness ==
    /\ Ran("lib") /\ sas.listing = "Empty DataFrame"
    /\ out.stdout = <<Line("Empty DataFrame", <<>>)>>
    /\ result = Return(0)

\* C10: when the file named by --config does not exist or has no LOGGING
\* section, parse_args succeeds with both logging directories empty and main
\* without a subcommand returns 0 without a session; when the file has a
\* LOGGING section, the two arguments take the section's values.
C10_ConfigOptional ==
    (pc # "start" /\ argv.config # "")
        => IF env.config.exists /\ "LOGGING" \in DOMAIN env.config.sections
           THEN (~InvalidFile) =>
                   \A k \in DOMAIN env.config.sections["LOGGING"] :
                       args[k] = env.config.sections["LOGGING"][k]
           ELSE /\ result.exc = "none"
                /\ (~InvalidFile) => pc # "done" \/ result.kind = "returned"
                /\ args.sas_server_logging_dir = ""
                /\ args.local_logging_dir = ""
                /\ Ran("none") => result = Return(0) /\ sas.opens = 0

\* the --obs string is a decimal number, with or without a minus sign
IsIntegerString(obs) ==
    \/ (obs # <<>> /\ \A i \in 1..Len(obs) : obs[i] \in {"0", "1", "9"})
    \/ (Len(obs) > 1 /\ obs[1] = "-"
            /\ \A i \in 2..Len(obs) : obs[i] \in {"0", "1", "9"})

\* C11: integer_in_range returns the integer n for every decimal string n
\* with 1 <= n <= 10000, both bounds included, and raises
\* argparse.ArgumentTypeError for every integer string below 1 or above 10000.
C11_IntegerInRange ==
    (pc = "obs_done" /\ IsIntegerString(argv.obs))
        => LET n == ParseInt(argv.obs).value IN
           IF 1 <= n /\ n <= 10000
           THEN check.res = Returned(n)
           ELSE check.res.raises = "ArgumentTypeError"

C11_Witness ==
    /\ pc = "obs_done"
    /\ argv.obs = <<"1", "0", "0", "0", "0">>
    /\ check.res.raises = "none" /\ check.res.value = 10000

\* the lines the tail printed: the log lines on stdout, in the order printed
TailPrinted == SelectSeq(out.stdout, LAMBDA l : l.text \in LogLines)

\* C12: on the live-log path, once sas.submit has returned on the worker
\* thread, the tail loop ends, the executor is left and run_sas_program is
\* left too: the foreground thread does not poll forever.
C12_TailTerminates == (run.live /\ run.future = "finished") ~> Done

C12_Witness ==
    /\ Ran("run") /\ run.live /\ run.future = "finished"
    /\ run.appended > 0
    /\ Len(TailPrinted) > 0

\* the lines the engine appended to the local log during the submission
TailAppended ==
    [i \in 1..run.appended |->
        Line(files.log.lines[Len(files.log.lines) - run.appended + i], <<>>)]

\* C13: on the live-log path, under every interleaving of the worker and the
\* foreground thread, every line appended to the local log while the
\* submission is outstanding has been printed to stdout, in file order and
\* exactly once, when run_sas_program returns.
C13_EveryLinePrinted ==
    (Ran("run") /\ run.live /\ run.future = "finished" /\ run.raising = "none")
        => TailPrinted = TailAppended

\* something was printed, to stdout or stderr, under one of these headings
Printed(texts) ==
    \/ \E i \in DOMAIN out.stdout : out.stdout[i].text \in texts
    \/ \E i \in DOMAIN out.stderr : out.stderr[i].text \in texts

\* both logging directories are configured and the engine answered that it
\* cannot see the local log file
FellBack ==
    /\ Ran("run") /\ sas.opens > 0
    /\ LoggingConfigured(args)
    /\ sas.calls.symget = 1 /\ sas.dir_exists # 1

C15_SessionClosedOnce ==
    [][/\ sas'.opens <= 1 /\ sas'.closes <= sas'.opens
       /\ pc' = "done" => (sas'.closes = sas'.opens /\ sas'.state # "open")
       /\ sas.state = "closed" => (sas'.calls = sas.calls /\ sas'.state = "closed")
       /\ sas'.state = "closed" => run'.future \notin {"pending", "running"}]_vars

C15_Witness ==
    /\ Ran("run") /\ run.live /\ run.raising = "OtherException"
    /\ sas.state = "closed" /\ sas.opens = 1 /\ sas.closes = 1
    /\ result = Uncaught("OtherException")

====
